---- MODULE Spec2Model ----
\* Tiled 2D/3D inference of kits19cnn.inference.infer.Predictor.
\*
\* Arrays are functions on 0-based index ranges, a[k][i][j] for an array of
\* shape (classes, H, W); the batch axis of size 1 (BATCH_SIZE is None in every
\* caller) is not represented.  Array entries are exact: a pixel value v stands
\* for the real v / Unit, and the running sum of pred_per_2D, whose terms all
\* carry the factor 1/n_results, is held as its numerator over n_results.
\* Floating-point rounding of the sums is therefore not represented.
EXTENDS Integers, Sequences, FiniteSets, TLC

\* ------------------------------------------------------------------ bounds
MaxTile == 4
MaxExtent == 4
MaxStep == 3
MaxRepeats == 2
MaxChannels == 3
MaxSlices == 3
Unit == 2

VARIABLES
    patch_size,              \* self.patch_size, <<tile_x, tile_y>>
    step,                    \* the overlap factor
    mirror_axes,             \* tuple of the mirrored spatial axes
    do_mirroring,            \* self.do_mirroring
    n_repeats,               \* self.n_repeats
    use_gaussian,            \* self.use_gaussian
    regions_class_order,     \* self.regions_class_order, [is_none, order]
    model,                   \* which function self.model.predict computes
    patient_data,            \* the slice handed to predict_2D_2Dconv_tiled
    data,                    \* the padded slice
    slicer,                  \* the slicer pad_nd_image returned
    add,                     \* the weight map of one tile
    result,                  \* accumulated weighted predictions
    result_numsamples,       \* accumulated weights
    xsteps, ysteps,          \* the step grid, per axis
    xi, yi,                  \* position of the tile loop in xsteps, ysteps
    act_pred,                \* [num, den]: the probability map num / den
    predicted_segmentation,  \* the label map of the slice
    model_calls,             \* number of self.model.predict invocations so far
    pc,                      \* position of the running call
    volume,                  \* the (c, x, y, z) array of predict_3D_2Dconv_tiled
    s,                       \* its loop index
    calls,                   \* the slices handed to the 2D engine, in call order
    seg_volume,              \* predicted_segmentation of the 3D call
    act_volume,              \* act_pred of the 3D call (before np.vstack)
    tile_x,                  \* x of a direct pred_per_2D call
    tile_mult,               \* mult of a direct pred_per_2D call, [is_none, map]
    tile_out                 \* what the direct pred_per_2D call returned

vars == <<patch_size, step, mirror_axes, do_mirroring, n_repeats, use_gaussian,
          regions_class_order, model, patient_data, data, slicer, add, result,
          result_numsamples, xsteps, ysteps, xi, yi, act_pred,
          predicted_segmentation, model_calls, pc, volume, s, calls,
          seg_volume, act_volume, tile_x, tile_mult, tile_out>>

config_vars == <<patch_size, step, mirror_axes, do_mirroring, n_repeats,
                 use_gaussian, regions_class_order, model>>
engine_vars == <<patient_data, data, slicer, add, result, result_numsamples,
                 xsteps, ysteps, xi, yi, act_pred, predicted_segmentation>>
volume_vars == <<volume, s, calls, seg_volume, act_volume>>
direct_vars == <<tile_x, tile_mult, tile_out>>

\* ------------------------------------------------------------ array helpers
Range0(n) == 0 .. (n - 1)

Size0(f) == Cardinality(DOMAIN f)

Array2(h, w, Val(_, _)) == [i \in Range0(h) |-> [j \in Range0(w) |-> Val(i, j)]]

Array3(c, h, w, Val(_, _, _)) ==
    [k \in Range0(c) |-> [i \in Range0(h) |-> [j \in Range0(w) |-> Val(k, i, j)]]]

\* a.shape[1], a.shape[2] of a (c, h, w) array with c >= 1
Rows(a) == Size0(a[0])

Cols(a) == IF Rows(a) = 0 THEN 0 ELSE Size0(a[0][0])

In(v, tuple) == \E n \in 1 .. Len(tuple) : tuple[n] = v

RECURSIVE Pow2(_)
Pow2(n) == IF n = 0 THEN 1 ELSE 2 * Pow2(n - 1)

Max(a, b) == IF a >= b THEN a ELSE b

Min(a, b) == IF a <= b THEN a ELSE b

\* ------------------------------------------------------------------ padding
\* pad_nd_image(patient_data, tile_size, "edge", None, True): new_shape is the
\* tile size and no shape_must_be_divisible_by is passed, so each of the two
\* trailing axes grows to max(tile, extent); the difference is split with the
\* odd pixel after; the slicer holds, per axis, <<start, stop>> of the original
\* inside the padded array.
PadExtent(extent, tile) == Max(tile, extent)

PadBelow(extent, tile) == (PadExtent(extent, tile) - extent) \div 2

PadAbove(extent, tile) ==
    ((PadExtent(extent, tile) - extent) \div 2) + ((PadExtent(extent, tile) - extent) % 2)

Clamp(i, n) == Max(0, Min(i, n - 1))

PadNdImage(image, new_shape) ==
    LET h == Rows(image)
        w == Cols(image)
        H == PadExtent(h, new_shape[1])
        W == PadExtent(w, new_shape[2])
        bx == PadBelow(h, new_shape[1])
        by == PadBelow(w, new_shape[2])
        Edge(k, i, j) == image[k][Clamp(i - bx, h)][Clamp(j - by, w)]
    IN  [res |-> Array3(Size0(image), H, W, Edge),
         slicer |-> << <<0, Size0(image)>>,
                       <<bx, H - PadAbove(h, new_shape[1])>>,
                       <<by, W - PadAbove(w, new_shape[2])>> >>]

\* a[sl] for a (c, h, w) array and a tuple of <<start, stop>> slices, one per
\* leading axis (axes without a slice are taken whole); numpy clips a slice to
\* the axis.
SliceLo(sl, n, extent) == IF n <= Len(sl) THEN Min(sl[n][1], extent) ELSE 0

SliceLen(sl, n, extent) ==
    IF n <= Len(sl)
    THEN Max(0, Min(sl[n][2], extent) - Min(sl[n][1], extent))
    ELSE extent

ApplySlicer(a, sl) ==
    LET c == Size0(a)
        h == Rows(a)
        w == Cols(a)
        Val(k, i, j) == a[SliceLo(sl, 1, c) + k][SliceLo(sl, 2, h) + i][SliceLo(sl, 3, w) + j]
    IN  Array3(SliceLen(sl, 1, c), SliceLen(sl, 2, h), SliceLen(sl, 3, w), Val)

\* line 157: one whole-axis slice per leading axis of result that the slicer's
\* spatial part does not cover, then the slicer without its first entry
BadResultSlicer(res, sl) ==
    [n \in 1 .. (Len(sl) - 1) |-> sl[n + 1]]

ResultSlicer(res, sl) ==
    [n \in 1 .. (3 - (Len(sl) - 1)) |-> <<0, Size0(res)>>] \o
    [n \in 1 .. (Len(sl) - 1) |-> sl[n + 1]]

\* ------------------------------------------------------------ the model
\* self.model.predict on a (channels, h, w) tile: an opaque collaborator, here
\* one of two pointwise functions with n_classes = channels.
ModelPredict(x) ==
    IF model = "identity"
    THEN x
    ELSE [k \in DOMAIN x |-> [i \in DOMAIN x[k] |-> [j \in DOMAIN x[k][i] |-> Unit - x[k][i][j]]]]

\* np.flip(x, 2) and np.flip(x, 3) of a (1, c, h, w) array
Flip2(x) ==
    [k \in DOMAIN x |-> [i \in DOMAIN x[k] |-> x[k][Size0(x[k]) - 1 - i]]]

Flip3(x) ==
    [k \in DOMAIN x |-> [i \in DOMAIN x[k] |->
        [j \in DOMAIN x[k][i] |-> x[k][i][Size0(x[k][i]) - 1 - j]]]]

AddArrays(a, b) ==
    [k \in DOMAIN a |-> [i \in DOMAIN a[k] |-> [j \in DOMAIN a[k][i] |->
        a[k][i][j] + b[k][i][j]]]]

ZerosLike(x) ==
    [k \in DOMAIN x |-> [i \in DOMAIN x[k] |-> [j \in DOMAIN x[k][i] |-> 0]]]

\* ------------------------------------------------------------ pred_per_2D
\* lines 180-185
NResults(axes) ==
    IF do_mirroring THEN n_repeats * Pow2(Len(axes)) ELSE n_repeats

MirrorIdx == IF do_mirroring THEN 4 ELSE 1

\* lines 189-201: whether pass m of the inner loop invokes the model
BadInvoked(m, axes) ==
    \/ m = 0
    \/ m = 1 /\ In(1, axes)
    \/ m = 2 /\ In(0, axes)
    \/ m = 3 /\ (In(0, axes) \/ In(1, axes))

Invoked(m, axes) ==
    \/ m = 0
    \/ m = 1 /\ In(1, axes)
    \/ m = 2 /\ In(0, axes)
    \/ m = 3 /\ In(0, axes) /\ In(1, axes)

\* lines 190-203: the term pass m adds, without its factor 1/n_results
BadVariant(m, x) ==
    IF m = 0 THEN ModelPredict(x)
    ELSE IF m = 1 THEN Flip2(ModelPredict(Flip3(x)))
    ELSE IF m = 2 THEN Flip2(ModelPredict(Flip2(x)))
    ELSE Flip2(Flip3(ModelPredict(Flip2(Flip3(x)))))

Variant(m, x) ==
    IF m = 0 THEN ModelPredict(x)
    ELSE IF m = 1 THEN Flip3(ModelPredict(Flip3(x)))
    ELSE IF m = 2 THEN Flip2(ModelPredict(Flip2(x)))
    ELSE Flip2(Flip3(ModelPredict(Flip2(Flip3(x)))))

\* lines 187-203, from pass t = i * mirror_idx + m on: the sum's numerator and
\* the number of model invocations
RECURSIVE PredLoop(_, _, _, _)
PredLoop(t, x, axes, acc) ==
    IF t >= n_repeats * MirrorIdx
    THEN acc
    ELSE IF Invoked(t % MirrorIdx, axes)
         THEN PredLoop(t + 1, x, axes,
                       [sum |-> AddArrays(acc.sum, Variant(t % MirrorIdx, x)),
                        invocations |-> acc.invocations + 1])
         ELSE PredLoop(t + 1, x, axes, acc)

\* lines 205-206: result[:, :] *= mult
TimesMult(a, mult) ==
    IF mult.is_none
    THEN a
    ELSE [k \in DOMAIN a |-> [i \in DOMAIN a[k] |-> [j \in DOMAIN a[k][i] |->
            a[k][i][j] * mult.map[i][j]]]]

\* pred_per_2D(x, mirror_axes, mult): [num, den, invocations], the returned
\* array being num / den
PredPer2D(x, axes, mult) ==
    LET done == PredLoop(0, x, axes, [sum |-> ZerosLike(x), invocations |-> 0])
    IN  [num |-> TimesMult(done.sum, mult),
         den |-> NResults(axes),
         invocations |-> done.invocations]

\* result[:, :] *= mult writes in place: mult's axis must have result's extent
\* or extent 1, otherwise numpy raises ValueError
BroadcastFails(extent, mult_extent) == extent # mult_extent /\ mult_extent # 1

\* ------------------------------------------------------------ the step grid
\* lines 131-144, per spatial axis of the padded slice
CenterCoordStart(tile) == tile \div 2

BadCenterCoordEnd(extent, tile) == extent

CenterCoordEnd(extent, tile) == extent - (tile \div 2)

\* line 136: np.ceil((end - start) / (tile / step))
BadNSteps(extent, tile, stp) ==
    LET d == CenterCoordEnd(extent, tile) - CenterCoordStart(tile)
    IN  (d + tile - 1) \div tile

NSteps(extent, tile, stp) ==
    LET d == CenterCoordEnd(extent, tile) - CenterCoordStart(tile)
    IN  (d * stp + tile - 1) \div tile

\* lines 139-144.  step_size = d / (n_steps + 1e-8) lies just below d / n_steps,
\* so np.arange(start, end + 1e-8, step_size) has n_steps + 1 entries
\* start + k * step_size, each just below start + k * d / n_steps (k >= 1):
\* np.round takes it to the nearest integer and an exact half down.  With
\* n_steps = 0 the step size is 0, replaced by 9999999, and the range is <<start>>.
RoundJustBelow(p, q) == (2 * p + q - 1) \div (2 * q)

Steps(extent, tile, stp) ==
    LET start == CenterCoordStart(tile)
        d == CenterCoordEnd(extent, tile) - start
        n == NSteps(extent, tile, stp)
    IN  IF n = 0
        THEN <<start>>
        ELSE [k \in 1 .. (n + 1) |-> start + RoundJustBelow((k - 1) * d, n)]

\* ------------------------------------------------------------ the weight map
\* lines 119-128.  With use_gaussian the map is a unit impulse at the tile's
\* centre filtered with sigma = tile // 8 per axis and divided by its maximum;
\* for tiles below 8 both sigmas are 0, gaussian_filter returns its input and
\* the map is the impulse itself.  (Larger tiles are used without use_gaussian.)
WeightMap(tile_size) ==
    LET Impulse(i, j) ==
            IF i = tile_size[1] \div 2 /\ j = tile_size[2] \div 2 THEN 1 ELSE 0
        One(i, j) == 1
    IN  IF use_gaussian
        THEN Array2(tile_size[1], tile_size[2], Impulse)
        ELSE Array2(tile_size[1], tile_size[2], One)

\* -------------------------------------------------- predict_2D_2Dconv_tiled
NClasses == Size0(patient_data)

Zeros3(c, h, w) == [k \in Range0(c) |-> [i \in Range0(h) |-> [j \in Range0(w) |-> 0]]]

\* lines 104-144
Setup ==
    /\ pc = "setup"
    /\ LET padded == PadNdImage(patient_data, patch_size)
           H == Rows(padded.res)
           W == Cols(padded.res)
       IN  /\ data' = padded.res
           /\ slicer' = padded.slicer
           /\ result' = Zeros3(NClasses, H, W)
           /\ result_numsamples' = Zeros3(NClasses, H, W)
           /\ add' = WeightMap(patch_size)
           /\ xsteps' = Steps(H, patch_size[1], step)
           /\ ysteps' = Steps(W, patch_size[2], step)
    /\ xi' = 1
    /\ yi' = 1
    /\ pc' = "tiles"
    /\ UNCHANGED <<config_vars, patient_data, act_pred, predicted_segmentation,
                   model_calls, volume_vars, direct_vars>>

\* lines 147-151
Lb(coord, tile) == coord - (tile \div 2)

Ub(coord, tile) == coord + (tile \div 2)

\* a[:, lb_x:ub_x, lb_y:ub_y] += b
AddAt(a, lb_x, ub_x, lb_y, ub_y, b) ==
    [k \in DOMAIN a |-> [i \in DOMAIN a[k] |-> [j \in DOMAIN a[k][i] |->
        IF lb_x <= i /\ i < ub_x /\ lb_y <= j /\ j < ub_y
        THEN a[k][i][j] + b[k][i - lb_x][j - lb_y]
        ELSE a[k][i][j]]]]

\* line 153: data[:, :, lb_x:ub_x, lb_y:ub_y] for the tile centred at (x, y)
TileInput(d, x, y) ==
    ApplySlicer(d, << <<0, Size0(d)>>,
                      <<Lb(x, patch_size[1]), Ub(x, patch_size[1])>>,
                      <<Lb(y, patch_size[2]), Ub(y, patch_size[2])>> >>)

\* lines 146-155: one pass of the tile loop, for (xsteps[xi], ysteps[yi])
PredictTile ==
    /\ pc = "tiles"
    /\ LET lb_x == Lb(xsteps[xi], patch_size[1])
           ub_x == Ub(xsteps[xi], patch_size[1])
           lb_y == Lb(ysteps[yi], patch_size[2])
           ub_y == Ub(ysteps[yi], patch_size[2])
           pred == PredPer2D(TileInput(data, xsteps[xi], ysteps[yi]), mirror_axes,
                             [is_none |-> FALSE, map |-> add])
           weights == [k \in Range0(NClasses) |-> add]
           last == xi = Len(xsteps) /\ yi = Len(ysteps)
       IN  IF \/ BroadcastFails(SliceLen(<<<<lb_x, ub_x>>>>, 1, Rows(data)), patch_size[1])
              \/ BroadcastFails(SliceLen(<<<<lb_y, ub_y>>>>, 1, Cols(data)), patch_size[2])
           THEN /\ pc' = "raised"
                /\ model_calls' = model_calls + pred.invocations
                /\ UNCHANGED <<result, result_numsamples, xi, yi>>
           ELSE /\ result' = AddAt(result, lb_x, ub_x, lb_y, ub_y, pred.num)
                /\ result_numsamples' =
                       AddAt(result_numsamples, lb_x, ub_x, lb_y, ub_y, weights)
                /\ model_calls' = model_calls + pred.invocations
                /\ xi' = IF yi = Len(ysteps) THEN xi + 1 ELSE xi
                /\ yi' = IF yi = Len(ysteps) THEN 1 ELSE yi + 1
                /\ pc' = IF last THEN "unpad" ELSE "tiles"
    /\ UNCHANGED <<config_vars, patient_data, data, slicer, add, xsteps, ysteps,
                   act_pred, predicted_segmentation, volume_vars, direct_vars>>

\* lines 156-161: the padding is cut off both buffers, then result is divided
\* by result_numsamples; the quotient is kept as numerator and denominator,
\* the denominator carrying pred_per_2D's n_results
Unpad ==
    /\ pc = "unpad"
    /\ LET sl == ResultSlicer(result, slicer)
           res == ApplySlicer(result, sl)
           num == ApplySlicer(result_numsamples, sl)
       IN  /\ result' = res
           /\ result_numsamples' = num
           /\ act_pred' =
                 [num |-> res,
                  den |-> [k \in DOMAIN num |-> [i \in DOMAIN num[k] |->
                             [j \in DOMAIN num[k][i] |->
                                NResults(mirror_axes) * num[k][i][j]]]]]
    /\ pc' = "label"
    /\ UNCHANGED <<config_vars, patient_data, data, slicer, add, xsteps, ysteps,
                   xi, yi, predicted_segmentation, model_calls, volume_vars,
                   direct_vars>>

\* act_pred[k][i][j] > 0.5, the entry being num / (den * Unit); 0 / 0 is nan,
\* which exceeds nothing
BadExceedsHalf(num, den) == den > 0 /\ 2 * num >= Unit * den

ExceedsHalf(num, den) == den > 0 /\ 2 * num > Unit * den

\* act_pred.argmax(0) at one pixel: the first class holding the maximum
ArgMax(p, i, j) ==
    CHOOSE k \in DOMAIN p.num :
        /\ \A k2 \in DOMAIN p.num :
              p.num[k][i][j] * p.den[k2][i][j] >= p.num[k2][i][j] * p.den[k][i][j]
        /\ \A k2 \in DOMAIN p.num :
              k2 < k => p.num[k][i][j] * p.den[k2][i][j] > p.num[k2][i][j] * p.den[k][i][j]

\* lines 166-169: entry n of the class order writes its label wherever channel
\* n - 1 of act_pred exceeds 0.5
RECURSIVE LabelLoop(_, _, _, _)
LabelLoop(n, order, p, seg) ==
    IF n > Len(order)
    THEN seg
    ELSE LabelLoop(n + 1, order, p,
            [i \in DOMAIN seg |-> [j \in DOMAIN seg[i] |->
                IF ExceedsHalf(p.num[n - 1][i][j], p.den[n - 1][i][j])
                THEN order[n]
                ELSE seg[i][j]]])

\* lines 163-170
Segmentation(p, class_order) ==
    IF class_order.is_none
    THEN [i \in DOMAIN p.num[0] |-> [j \in DOMAIN p.num[0][i] |-> ArgMax(p, i, j)]]
    ELSE LabelLoop(1, class_order.order, p,
                   [i \in DOMAIN p.num[0] |-> [j \in DOMAIN p.num[0][i] |-> 0]])

Label ==
    /\ pc = "label"
    /\ predicted_segmentation' = Segmentation(act_pred, regions_class_order)
    /\ pc' = "return"
    /\ UNCHANGED <<config_vars, patient_data, data, slicer, add, result,
                   result_numsamples, xsteps, ysteps, xi, yi, act_pred,
                   model_calls, volume_vars, direct_vars>>

\* ------------------------------------------------------------------ inputs
\* Slices are drawn from two families of pixel patterns: one whose rows,
\* columns and channels all differ, one whose channels saturate so that several
\* classes exceed 0.5 at the same pixel.
Patterns == {[a |-> 1, b |-> 2, sat |-> FALSE], [a |-> 2, b |-> 1, sat |-> TRUE]}

Pixel(p, k, i, j) ==
    IF p.sat
    THEN Min(Unit, ((p.a * i + p.b * j) % (Unit + 1)) + k)
    ELSE (p.a * i + p.b * j + k) % (Unit + 1)

Slice(p, c, h, w) ==
    [k \in Range0(c) |-> [i \in Range0(h) |-> [j \in Range0(w) |-> Pixel(p, k, i, j)]]]

NoOrder == [is_none |-> TRUE, order |-> <<>>]

\* no order, (1, ..., c) and (c, ..., 1)
ClassOrders(c) ==
    {NoOrder,
     [is_none |-> FALSE, order |-> [n \in 1 .. c |-> n]],
     [is_none |-> FALSE, order |-> [n \in 1 .. c |-> c + 1 - n]]}

MirrorAxes == {<<>>, <<0>>, <<1>>, <<0, 1>>}

Models == {"identity", "complement"}

Empty == <<>>

IdleEngine ==
    /\ data = Empty /\ slicer = Empty /\ add = Empty /\ result = Empty
    /\ result_numsamples = Empty /\ xsteps = Empty /\ ysteps = Empty
    /\ xi = 0 /\ yi = 0 /\ act_pred = Empty /\ predicted_segmentation = Empty

IdleVolume ==
    /\ volume = Empty /\ s = 0 /\ calls = Empty /\ seg_volume = Empty
    /\ act_volume = Empty

IdleDirect == tile_x = Empty /\ tile_mult = Empty /\ tile_out = Empty

\* every tile size, slice extent and overlap factor of the bounds, on a
\* one-channel slice predicted once without mirroring
InitGrid ==
    /\ patch_size \in (1 .. MaxTile) \X (1 .. MaxTile)
    /\ step \in 1 .. MaxStep
    /\ mirror_axes = <<>>
    /\ do_mirroring = FALSE
    /\ n_repeats = 1
    /\ use_gaussian \in BOOLEAN
    /\ model = "identity"
    /\ regions_class_order = NoOrder
    /\ \E p \in Patterns, h \in 1 .. MaxExtent, w \in 1 .. MaxExtent :
          ~p.sat /\ patient_data = Slice(p, 1, h, w)

\* every channel count, class order, pattern and slice extent of the bounds
\* under even tiles and a choice of predictor settings
InitSettings ==
    /\ patch_size \in {<<2, 2>>, <<4, 2>>}
    /\ step = 2
    /\ \E cfg \in {<<<<>>, FALSE, 1, FALSE, "identity">>,
                     <<<<>>, FALSE, 1, TRUE, "complement">>,
                     <<<<>>, TRUE, MaxRepeats, FALSE, "complement">>,
                     <<<<0, 1>>, TRUE, 1, FALSE, "identity">>,
                     <<<<1>>, TRUE, MaxRepeats, FALSE, "identity">>,
                     <<<<0>>, TRUE, 1, TRUE, "identity">>} :
          /\ mirror_axes = cfg[1]
          /\ do_mirroring = cfg[2]
          /\ n_repeats = cfg[3]
          /\ use_gaussian = cfg[4]
          /\ model = cfg[5]
    /\ \E p \in Patterns, c \in 1 .. MaxChannels, h \in 1 .. MaxExtent, w \in 1 .. MaxExtent :
          /\ patient_data = Slice(p, c, h, w)
          /\ regions_class_order \in ClassOrders(c)

\* a Predictor and one slice, about to enter predict_2D_2Dconv_tiled
Init ==
    /\ InitGrid \/ InitSettings
    /\ model_calls = 0
    /\ pc = "setup"
    /\ IdleEngine
    /\ IdleVolume
    /\ IdleDirect

Next == Setup \/ PredictTile \/ Unpad \/ Label

Spec == Init /\ [][Next]_vars

\* ------------------------------------------------- the worked scenario
\* tile (16, 16) on slices of 32 rows, each overlap factor of the bounds,
\* identity model, no mirroring, one repeat, uniform weights
InitScenario ==
    /\ patch_size = <<16, 16>>
    /\ step \in 1 .. MaxStep
    /\ mirror_axes = <<>>
    /\ do_mirroring \in BOOLEAN
    /\ n_repeats = 1
    /\ use_gaussian = FALSE
    /\ model = "identity"
    /\ regions_class_order = NoOrder
    /\ \E p \in Patterns, w \in {32, 40} : patient_data = Slice(p, 3, 32, w)
    /\ model_calls = 0
    /\ pc = "setup"
    /\ IdleEngine
    /\ IdleVolume
    /\ IdleDirect

SpecScenario == InitScenario /\ [][Next]_vars

\* ------------------------------------------------- pred_per_2D called directly
MultMaps(h, w) ==
    {[is_none |-> TRUE, map |-> <<>>],
     [is_none |-> FALSE, map |-> [i \in Range0(h) |-> [j \in Range0(w) |-> 1]]],
     [is_none |-> FALSE, map |-> [i \in Range0(h) |-> [j \in Range0(w) |-> 1 + i + 2 * j]]]}

InitTile ==
    /\ mirror_axes \in MirrorAxes
    /\ do_mirroring \in BOOLEAN
    /\ n_repeats \in 1 .. MaxRepeats
    /\ model \in Models
    /\ \E p \in Patterns, c \in 1 .. MaxChannels, h \in 1 .. MaxTile, w \in 1 .. MaxTile :
          /\ tile_x = Slice(p, c, h, w)
          /\ tile_mult \in MultMaps(h, w)
          /\ patch_size = <<h, w>>
    /\ tile_out = Empty
    /\ step = 1
    /\ use_gaussian = FALSE
    /\ regions_class_order = NoOrder
    /\ patient_data = Empty
    /\ model_calls = 0
    /\ pc = "pred_call"
    /\ IdleEngine
    /\ IdleVolume

\* lines 172-208, one whole call
CallPredPer2D ==
    /\ pc = "pred_call"
    /\ tile_out' = PredPer2D(tile_x, mirror_axes, tile_mult)
    /\ model_calls' = model_calls + tile_out'.invocations
    /\ pc' = "pred_return"
    /\ UNCHANGED <<config_vars, engine_vars, volume_vars, tile_x, tile_mult>>

NextTile == CallPredPer2D

SpecTile == InitTile /\ [][NextTile]_vars

\* ------------------------------------------------- predict_3D_2Dconv_tiled
\* data[:, a] of a (c, x, y, z) array
BadVolumeSlice(v, a) == [k \in DOMAIN v |-> v[k][Size0(v[k]) - 1 - a]]

VolumeSlice(v, a) == [k \in DOMAIN v |-> v[k][a]]

Voxel(p, k, a, i, j) == Pixel(p, k + a, i, j)

Volume(p, c, x, y, z) ==
    [k \in Range0(c) |-> [a \in Range0(x) |->
        [i \in Range0(y) |-> [j \in Range0(z) |-> Voxel(p, k, a, i, j)]]]]

Init3D ==
    /\ patch_size = <<2, 2>>
    /\ step = 2
    /\ \E cfg \in {<<<<0, 1>>, TRUE, "identity">>, <<<<>>, FALSE, "complement">>} :
          /\ mirror_axes = cfg[1]
          /\ do_mirroring = cfg[2]
          /\ model = cfg[3]
    /\ n_repeats = 1
    /\ use_gaussian = FALSE
    /\ \E p \in Patterns, c \in 1 .. 2, x \in 1 .. MaxSlices, y \in 1 .. MaxExtent, z \in 1 .. MaxExtent :
          /\ volume = Volume(p, c, x, y, z)
          /\ regions_class_order \in {NoOrder, [is_none |-> FALSE, order |-> [n \in 1 .. c |-> n]]}
    /\ s = 0
    /\ calls = <<>>
    /\ seg_volume = <<>>
    /\ act_volume = <<>>
    /\ patient_data = Empty
    /\ model_calls = 0
    /\ pc = "loop"
    /\ IdleEngine
    /\ IdleDirect

\* line 82, the slices the loop runs over
SliceCount(v) == Size0(v[0])

\* lines 82-86: the next pass of the loop enters the 2D engine with data[:, s]
StartSlice ==
    /\ pc = "loop"
    /\ s < SliceCount(volume)
    /\ patient_data' = VolumeSlice(volume, s)
    /\ calls' = Append(calls, VolumeSlice(volume, s))
    /\ data' = Empty /\ slicer' = Empty /\ add' = Empty /\ result' = Empty
    /\ result_numsamples' = Empty /\ xsteps' = Empty /\ ysteps' = Empty
    /\ xi' = 0 /\ yi' = 0 /\ act_pred' = Empty /\ predicted_segmentation' = Empty
    /\ pc' = "setup"
    /\ UNCHANGED <<config_vars, model_calls, volume, s, seg_volume, act_volume,
                   direct_vars>>

\* lines 87-88: the engine has returned
CollectSlice ==
    /\ pc = "return"
    /\ seg_volume' = Append(seg_volume, predicted_segmentation)
    /\ act_volume' = Append(act_volume, act_pred)
    /\ s' = s + 1
    /\ pc' = "loop"
    /\ UNCHANGED <<config_vars, engine_vars, model_calls, volume, calls, direct_vars>>

\* lines 89-91: np.vstack of both lists, act_pred transposed to (class, slice, ., .)
Stack ==
    /\ pc = "loop"
    /\ s = SliceCount(volume)
    /\ act_volume' =
          [num |-> [k \in DOMAIN volume |-> [a \in Range0(s) |-> act_volume[a + 1].num[k]]],
           den |-> [k \in DOMAIN volume |-> [a \in Range0(s) |-> act_volume[a + 1].den[k]]]]
    /\ pc' = "done"
    /\ UNCHANGED <<config_vars, engine_vars, model_calls, volume, s, calls,
                   seg_volume, direct_vars>>

Next3D == StartSlice \/ Setup \/ PredictTile \/ Unpad \/ Label \/ CollectSlice \/ Stack

Spec3D == Init3D /\ [][Next3D]_vars

\* ------------------------------------------------------------------ claims
Padded == pc \in {"tiles", "unpad", "raised"}

\* the tile of the grid's n-th x and m-th y coordinate holds pixel (i, j)
InTile(n, m, i, j) ==
    /\ Lb(xsteps[n], patch_size[1]) <= i /\ i < Ub(xsteps[n], patch_size[1])
    /\ Lb(ysteps[m], patch_size[2]) <= j /\ j < Ub(ysteps[m], patch_size[2])

CoveredPixel(i, j) ==
    \E n \in 1 .. Len(xsteps), m \in 1 .. Len(ysteps) : InTile(n, m, i, j)

\* C1: once every (x, y) pair of the step grid has been processed, every pixel
\* of the padded slice lies in at least one tile and, under the uniform weight
\* map, no entry of result_numsamples is zero.
C1_Coverage ==
    pc = "unpad" =>
        \A i \in Range0(Rows(data)), j \in Range0(Cols(data)) :
            /\ CoveredPixel(i, j)
            /\ ~use_gaussian => \A k \in DOMAIN result_numsamples :
                                    result_numsamples[k][i][j] # 0

\* Supporting C1: with both tile extents even the grid covers the padded slice.
CoverageEvenTiles ==
    (Padded /\ patch_size[1] % 2 = 0 /\ patch_size[2] % 2 = 0) =>
        \A i \in Range0(Rows(data)), j \in Range0(Cols(data)) : CoveredPixel(i, j)

\* C2: the slicer recorded by the padding step, completed as for result and
\* result_numsamples, cuts the original slice out of the padded one, entry for
\* entry and with the leading axis whole, and the cropped buffers have the
\* original slice's spatial extent.
C2_PaddingRoundTrip ==
    /\ Padded => ApplySlicer(data, ResultSlicer(data, slicer)) = patient_data
    /\ pc \in {"label", "return"} =>
          /\ Size0(result) = NClasses
          /\ \A k \in DOMAIN result :
                /\ DOMAIN result[k] = DOMAIN patient_data[k]
                /\ DOMAIN result_numsamples[k] = DOMAIN patient_data[k]
                /\ \A i \in DOMAIN result[k] :
                      /\ DOMAIN result[k][i] = DOMAIN patient_data[k][i]
                      /\ DOMAIN result_numsamples[k][i] = DOMAIN patient_data[k][i]

\* C2 witness: a slice padded by an odd amount on both axes, with several
\* channels, has been cropped back.
C2_Witness ==
    /\ pc = "label"
    /\ NClasses >= 2
    /\ (patch_size[1] - Rows(patient_data)) % 2 = 1 /\ patch_size[1] > Rows(patient_data)
    /\ (patch_size[2] - Cols(patient_data)) % 2 = 1 /\ patch_size[2] > Cols(patient_data)
    /\ Rows(data) > Rows(result)

\* the entries of the class order whose channel exceeds 0.5 at pixel (i, j)
Exceeding(i, j) ==
    {n \in 1 .. Len(regions_class_order.order) :
        /\ act_pred.den[n - 1][i][j] > 0
        /\ 2 * act_pred.num[n - 1][i][j] > Unit * act_pred.den[n - 1][i][j]}

\* C4: with a class order, the label of a pixel is the last entry of the order
\* whose channel exceeds 0.5 there, and 0 when none does.
C4_ClassOrderLabel ==
    (pc = "return" /\ ~regions_class_order.is_none) =>
        \A i \in DOMAIN predicted_segmentation :
            \A j \in DOMAIN predicted_segmentation[i] :
                predicted_segmentation[i][j] =
                    IF Exceeding(i, j) = {}
                    THEN 0
                    ELSE regions_class_order.order[
                            CHOOSE n \in Exceeding(i, j) : \A n2 \in Exceeding(i, j) : n2 <= n]

\* C4 witness: class order (1, 2, 3), a pixel where the channels of 2 and 3 exceed
\* 0.5 and that of 1 does not, labelled 3.
C4_Witness ==
    /\ pc = "return"
    /\ ~regions_class_order.is_none
    /\ regions_class_order.order = <<1, 2, 3>>
    /\ \E i \in DOMAIN predicted_segmentation :
          \E j \in DOMAIN predicted_segmentation[i] :
              /\ Exceeding(i, j) = {2, 3}
              /\ predicted_segmentation[i][j] = 3

\* C5: when the tile is at least as large as the slice on both axes, the step
\* grid has the single coordinate tile // 2 on each axis.
C5_SingleTile ==
    (pc # "setup" /\ patch_size[1] >= Rows(patient_data)
                  /\ patch_size[2] >= Cols(patient_data)) =>
        /\ xsteps = <<patch_size[1] \div 2>>
        /\ ysteps = <<patch_size[2] \div 2>>

\* Supporting C5: the single-tile grid is what even tiles get.
SingleTileEvenTiles ==
    (pc # "setup" /\ patch_size[1] >= Rows(patient_data)
                  /\ patch_size[2] >= Cols(patient_data)
                  /\ patch_size[1] % 2 = 0 /\ patch_size[2] % 2 = 0) =>
        /\ xsteps = <<patch_size[1] \div 2>>
        /\ ysteps = <<patch_size[2] \div 2>>

StrictlyPositive(map) ==
    \A i \in DOMAIN map : \A j \in DOMAIN map[i] : map[i][j] > 0

\* C6: for the identity model, no mirrored variants, one repeat and a weight
\* map that is positive everywhere, the returned probability map equals the
\* input slice at every pixel.
C6_NoBlendingError ==
    (pc \in {"label", "return"} /\ model = "identity" /\ mirror_axes = <<>>
        /\ n_repeats = 1 /\ StrictlyPositive(add)) =>
        \A k \in DOMAIN patient_data : \A i \in DOMAIN patient_data[k] :
            \A j \in DOMAIN patient_data[k][i] :
                /\ act_pred.den[k][i][j] > 0
                /\ act_pred.num[k][i][j] = patient_data[k][i][j] * act_pred.den[k][i][j]

\* Supporting C6: the same with both tile extents even.
NoBlendingErrorEvenTiles ==
    (pc \in {"label", "return"} /\ model = "identity" /\ mirror_axes = <<>>
        /\ n_repeats = 1 /\ StrictlyPositive(add)
        /\ patch_size[1] % 2 = 0 /\ patch_size[2] % 2 = 0) =>
        \A k \in DOMAIN patient_data : \A i \in DOMAIN patient_data[k] :
            \A j \in DOMAIN patient_data[k][i] :
                /\ act_pred.den[k][i][j] > 0
                /\ act_pred.num[k][i][j] = patient_data[k][i][j] * act_pred.den[k][i][j]

\* C10: on each axis the first step coordinate is tile // 2, the last is at
\* most the padded extent minus tile // 2, and every tile window
\* [c - tile // 2, c + tile // 2) lies inside the padded slice.
C10_StepGridBounds ==
    pc # "setup" =>
        /\ xsteps[1] = patch_size[1] \div 2
        /\ ysteps[1] = patch_size[2] \div 2
        /\ xsteps[Len(xsteps)] <= Rows(data) - (patch_size[1] \div 2)
        /\ ysteps[Len(ysteps)] <= Cols(data) - (patch_size[2] \div 2)
        /\ \A n \in 1 .. Len(xsteps) :
              0 <= Lb(xsteps[n], patch_size[1]) /\ Ub(xsteps[n], patch_size[1]) <= Rows(data)
        /\ \A m \in 1 .. Len(ysteps) :
              0 <= Lb(ysteps[m], patch_size[2]) /\ Ub(ysteps[m], patch_size[2]) <= Cols(data)

\* C10 witness: a grid of several tiles per axis whose last tile, ending at the
\* slice's border, has been accumulated.
C10_Witness ==
    /\ pc = "unpad"
    /\ Len(xsteps) >= 3 /\ Len(ysteps) >= 2
    /\ patch_size[1] >= 2 /\ patch_size[2] >= 2
    /\ Ub(xsteps[Len(xsteps)], patch_size[1]) = Rows(data)
    /\ result_numsamples[0][Rows(data) - 1][Cols(data) - 1] > 0

\* C3: for the identity model, a nonempty mirror_axes and no weight map,
\* pred_per_2D returns its input tile: the sum's numerator is n_results times
\* the input.
C3_MirrorSymmetry ==
    (pc = "pred_return" /\ model = "identity" /\ mirror_axes # <<>> /\ tile_mult.is_none) =>
        /\ tile_out.den >= 1
        /\ \A k \in DOMAIN tile_x : \A i \in DOMAIN tile_x[k] : \A j \in DOMAIN tile_x[k][i] :
              tile_out.num[k][i][j] = tile_out.den * tile_x[k][i][j]

\* C3 witness: a tile that neither flip leaves unchanged, predicted twice in
\* all four variants.
C3_Witness ==
    /\ pc = "pred_return"
    /\ model = "identity" /\ do_mirroring /\ mirror_axes = <<0, 1>> /\ tile_mult.is_none
    /\ n_repeats >= 2
    /\ Flip2(tile_x) # tile_x /\ Flip3(tile_x) # tile_x /\ Flip2(Flip3(tile_x)) # tile_x
    /\ tile_out.invocations = 4 * n_repeats

\* the distinct axes of {0, 1} the tuple names
AxisSet(axes) == {v \in {0, 1} : In(v, axes)}

\* C9: one pred_per_2D call invokes the model as often as its denominator says,
\* n_repeats * 2^|mirror_axes| with mirroring and n_repeats without, so the
\* factors 1/denominator of the invocations sum to 1.
C9_WeightsSumToOne ==
    pc = "pred_return" =>
        /\ tile_out.den =
              IF do_mirroring THEN n_repeats * Pow2(Cardinality(AxisSet(mirror_axes)))
                              ELSE n_repeats
        /\ tile_out.invocations = tile_out.den
        /\ model_calls = tile_out.den

\* C9 witness: a mirrored call on one axis with several repeats.
C9_Witness ==
    /\ pc = "pred_return"
    /\ do_mirroring /\ mirror_axes = <<0>> /\ n_repeats >= 2
    /\ tile_out.invocations = 2 * n_repeats

InScenario ==
    /\ patch_size = <<16, 16>> /\ step = 2
    /\ Rows(patient_data) = 32 /\ Cols(patient_data) = 32

\* C7: for a 32 x 32 slice, tile (16, 16) and overlap factor 2 the step grid is
\* exactly 8 and 24 on each axis.
C7_ScenarioGrid ==
    (pc # "setup" /\ InScenario) => xsteps = <<8, 24>> /\ ysteps = <<8, 24>>

\* C7 as amended: the grid is 8, 16 and 24 on each axis (overlap factor 2 makes
\* the stride half a tile), nine tiles in all.
C7_ScenarioGridAmended ==
    (pc # "setup" /\ InScenario) => xsteps = <<8, 16, 24>> /\ ysteps = <<8, 16, 24>>

\* C7 witness: the scenario's slice has been rebuilt from its nine tiles.
C7_Witness ==
    /\ pc = "return" /\ InScenario
    /\ Len(xsteps) * Len(ysteps) = 9
    /\ \A k \in DOMAIN patient_data : \A i \in DOMAIN patient_data[k] :
          \A j \in DOMAIN patient_data[k][i] :
              /\ act_pred.den[k][i][j] > 0
              /\ act_pred.num[k][i][j] = patient_data[k][i][j] * act_pred.den[k][i][j]

\* C8: the 2D engine is called once per index of the third spatial axis, in
\* increasing order, with the slice at that index.
C8_ThirdAxisOrder ==
    pc = "done" =>
        /\ Len(calls) = Size0(volume[0][0][0])
        /\ \A n \in 1 .. Len(calls) :
              calls[n] = [k \in DOMAIN volume |-> [a \in DOMAIN volume[k] |->
                            [i \in DOMAIN volume[k][a] |-> volume[k][a][i][n - 1]]]]

\* what a pointwise model makes of voxel (k, a, i, j), and the label that the
\* class probabilities of voxel (a, i, j) alone give
VoxelOutput(k, a, i, j) ==
    IF model = "identity" THEN volume[k][a][i][j] ELSE Unit - volume[k][a][i][j]

VoxelLabel(a, i, j) ==
    Segmentation([num |-> [k \in DOMAIN volume |-> [i0 \in {0} |-> [j0 \in {0} |->
                              VoxelOutput(k, a, i, j)]]],
                  den |-> [k \in DOMAIN volume |-> [i0 \in {0} |-> [j0 \in {0} |-> 1]]]],
                 regions_class_order)[0][0]

\* C8 as amended: the engine is called once per index of the first spatial
\* axis (axis 1 of the (channels, x, y, z) array), in increasing order, with
\* data[:, s]; entry s of the returned segmentation volume is the segmentation
\* of that slice and act_pred[:, s] its probability map (both models here are
\* pointwise and the tiles even, so slice s must come out as the model's
\* output on the voxels of slice s).
C8_FirstAxisOrder ==
    /\ Len(calls) <= Size0(volume[0])
    /\ \A n \in 1 .. Len(calls) : calls[n] = [k \in DOMAIN volume |-> volume[k][n - 1]]
    /\ pc = "done" =>
          /\ Len(calls) = Size0(volume[0])
          /\ Len(seg_volume) = Size0(volume[0])
          /\ \A a \in DOMAIN volume[0] : \A i \in DOMAIN volume[0][a] :
                \A j \in DOMAIN volume[0][a][i] :
                    /\ seg_volume[a + 1][i][j] = VoxelLabel(a, i, j)
                    /\ \A k \in DOMAIN volume :
                          /\ act_volume.den[k][a][i][j] > 0
                          /\ act_volume.num[k][a][i][j] =
                                VoxelOutput(k, a, i, j) * act_volume.den[k][a][i][j]

\* C8 witness: a volume of several distinct slices, whose first and third axes
\* differ in extent, has been predicted.
C8_Witness ==
    /\ pc = "done"
    /\ Len(seg_volume) >= 3
    /\ Size0(volume[0]) # Size0(volume[0][0][0])
    /\ calls[1] # calls[2]
    /\ seg_volume[1] # seg_volume[2]

StrictlyIncreasing(steps) ==
    \A n \in 1 .. Len(steps) - 1 : steps[n] < steps[n + 1]

\* C11: for every tile size, padded extent and overlap factor >= 1, overlap
\* factors larger than the tile included, the step coordinates of each axis
\* are strictly increasing, so no tile centre is visited twice.
C11_StrictlyIncreasing ==
    pc # "setup" => StrictlyIncreasing(xsteps) /\ StrictlyIncreasing(ysteps)

\* Supporting C11: the grid is strictly increasing whenever the overlap factor
\* does not exceed the tile extent of either axis.
StrictlyIncreasingStepWithinTile ==
    (pc # "setup" /\ step <= patch_size[1] /\ step <= patch_size[2]) =>
        StrictlyIncreasing(xsteps) /\ StrictlyIncreasing(ysteps)

====
